---- MODULE Spec2Model ----
(***************************************************************************)
(* eMailMiner: the per-domain breadth-first crawl (scrape_domain), the     *)
(* thread-pool scheduler (process_domains_and_save_to_db,                  *)
(* process_single_domain) and the SQLite store (init_db, save_to_db) of    *)
(* mail_miner_mt.py, and the sequential scheduler of mail_miner.py, which  *)
(* holds the same scrape_domain and a save_to_db without the lock.         *)
(*                                                                         *)
(* URLs and hrefs are Python strings, modelled as sequences of one-letter  *)
(* strings so that startswith, rfind, the substring test and string        *)
(* concatenation are computed as the code computes them.                   *)
(***************************************************************************)
EXTENDS Integers, Sequences, FiniteSets, Bags, TLC

\* ------------------------------------------------------------------ bounds
\* max_urls is drawn from 1..MaxK
MaxK == 5
\* the pool size (--threads) is drawn from 1..MaxThreads
MaxThreads == 2

\* ------------------------------------------------- Python string primitives
\* s.startswith(p)
StartsWith(s, p) == Len(s) >= Len(p) /\ SubSeq(s, 1, Len(p)) = p

\* x in s, for strings
Contains(s, x) ==
    \E i \in 1..(Len(s) - Len(x) + 1) : SubSeq(s, i, i + Len(x) - 1) = x

\* s.find of any letter of C, 1-based; 0 when there is none
FindAny(s, C) ==
    IF \E i \in 1..Len(s) : s[i] \in C
    THEN CHOOSE i \in 1..Len(s) : s[i] \in C /\ \A j \in 1..(i - 1) : s[j] \notin C
    ELSE 0

\* s.rfind(c) + 1: the 1-based place of the last c; 0 when there is none
RFind(s, c) ==
    IF \E i \in 1..Len(s) : s[i] = c
    THEN CHOOSE i \in 1..Len(s) : s[i] = c /\ \A j \in (i + 1)..Len(s) : s[j] # c
    ELSE 0

\* string.ascii_lowercase (the model's URLs hold no capitals)
ascii_letters ==
    {"a", "b", "c", "d", "e", "f", "g", "h", "i", "j", "k", "l", "m", "n", "o",
     "p", "q", "r", "s", "t", "u", "v", "w", "x", "y", "z"}

\* the letters urllib accepts in a scheme
scheme_chars ==
    ascii_letters \cup {"0", "1", "2", "3", "4", "5", "6", "7", "8", "9", "+", "-", "."}

\* urllib.parse.urlsplit(url), for URLs without '?' and '#'
urlsplit(url) ==
    LET i      == FindAny(url, {":"})
        hasSch == /\ i > 1
                  /\ url[1] \in ascii_letters
                  /\ \A j \in 1..(i - 1) : url[j] \in scheme_chars
        rest   == IF hasSch THEN SubSeq(url, i + 1, Len(url)) ELSE url
        hasNet == StartsWith(rest, <<"/", "/">>)
        after  == SubSeq(rest, 3, Len(rest))
        k      == FindAny(after, {"/"})
    IN  [scheme |-> IF hasSch THEN SubSeq(url, 1, i - 1) ELSE <<>>,
         netloc |-> IF ~hasNet THEN <<>>
                    ELSE IF k = 0 THEN after ELSE SubSeq(after, 1, k - 1),
         path   |-> IF ~hasNet THEN rest
                    ELSE IF k = 0 THEN <<>> ELSE SubSeq(after, k, Len(after))]

\* is_valid_url(url)
is_valid_url(url) ==
    LET parsed_url == urlsplit(url)
    IN  /\ parsed_url.scheme \in {<<"h", "t", "t", "p">>, <<"h", "t", "t", "p", "s">>}
        /\ parsed_url.netloc # <<>>

\* base_url = '{0.scheme}://{0.netloc}'.format(parts)
base_url(url) ==
    LET parts == urlsplit(url)
    IN  parts.scheme \o <<":", "/", "/">> \o parts.netloc

\* path = url[:url.rfind('/')+1] if '/' in parts.path else url
path(url) ==
    IF Contains(urlsplit(url).path, <<"/">>)
    THEN SubSeq(url, 1, RFind(url, "/"))
    ELSE url

\* the link an anchor's href stands for on the page at url
resolve(url, href) ==
    IF StartsWith(href, <<"/">>) THEN base_url(url) \o href
    ELSE IF ~StartsWith(href, <<"h", "t", "t", "p">>) THEN path(url) \o href
    ELSE href

exclusion_list ==
    {<<".", "j", "p", "g">>, <<".", "j", "p", "e", "g">>,
     <<".", "p", "d", "f">>, <<".", "p", "n", "g">>}

\* the test with '.png' missing from the list
excluded_no_png(link) ==
    \E x \in exclusion_list \ {<<".", "p", "n", "g">>} : Contains(link, x)

\* any([x in link for x in exclusion_list])
excluded(link) == \E x \in exclusion_list : Contains(link, x)

\* ------------------------------------------------------- the fetched web
\* What requests.get and BeautifulSoup return is outside the repository: the
\* web below is the fixture the crawls run on.  Page(u).hrefs is what
\* anchor.attrs.get('href', '') yields for each anchor of the page at u, in
\* document order (<<>> is an anchor without href); Page(u).emails is what
\* re.findall yields on its text.
HTTP == <<"h", "t", "t", "p", ":", "/", "/">>

\* site a: repeated anchors, a self link, links back to the seed, a cycle
\* b <-> c, links to .pdf, .jpeg, .jpg and .png files, an anchor without
\* href, a sub-directory and a link that is no valid URL
a_root == HTTP \o <<"a", "/">>
a_b    == HTTP \o <<"a", "/", "b">>
a_c    == HTTP \o <<"a", "/", "c">>
a_d_e  == HTTP \o <<"a", "/", "d", "/", "e">>
bad    == <<"h", "t", "t", "p", ":", "/", "z">>

\* site b: a link graph of depth three, p and q at depth one
b_root == HTTP \o <<"b", "/">>
b_p    == HTTP \o <<"b", "/", "p">>
b_q    == HTTP \o <<"b", "/", "q">>
b_r    == HTTP \o <<"b", "/", "r">>
b_x    == HTTP \o <<"b", "/", "x">>
b_y    == HTTP \o <<"b", "/", "y">>

\* site c: a seed without a path
c_seed == HTTP \o <<"c">>
c_m    == HTTP \o <<"c", "/", "m">>

\* site d: two links, emails on the seed and on the first page
d_root == HTTP \o <<"d", "/">>
d_n    == HTTP \o <<"d", "/", "n">>

\* site e: one page without links
e_root == HTTP \o <<"e", "/">>

NoPage == [hrefs |-> <<>>, emails |-> {}]

Page(u) ==
    CASE u = a_root -> [hrefs  |-> << <<"/", "b">>, <<"c">>, <<"/", "b">>, <<>>,
                                     <<"/", "f", ".", "p", "d", "f">>, a_root, bad >>,
                        emails |-> {"e1"}]
      [] u = a_b    -> [hrefs  |-> << <<"/">>, <<"d", "/", "e">>, <<"c">>,
                                     <<"/", "i", ".", "j", "p", "e", "g">> >>,
                        emails |-> {"e1", "e2"}]
      [] u = a_c    -> [hrefs  |-> << <<"c">>, <<"/", "b">>, <<"h", ".", "j", "p", "g">> >>,
                        emails |-> {}]
      [] u = a_d_e  -> [hrefs  |-> << <<>>, <<"g", ".", "p", "n", "g">>, <<"/", "b">> >>,
                        emails |-> {"e3"}]
      [] u = b_root -> [hrefs  |-> << <<"/", "p">>, <<"/", "q">> >>,
                        emails |-> {}]
      [] u = b_p    -> [hrefs  |-> << <<"/", "x">> >>,
                        emails |-> {}]
      [] u = b_q    -> [hrefs  |-> << <<"/", "r">> >>,
                        emails |-> {"e1"}]
      [] u = b_r    -> [hrefs  |-> << <<"/", "y">>, <<"/", "x">> >>,
                        emails |-> {}]
      [] u = c_seed -> [hrefs  |-> << <<>>, <<"k">>, <<"/", "m">> >>,
                        emails |-> {}]
      [] u = c_m    -> [hrefs  |-> << <<>> >>,
                        emails |-> {}]
      [] u = d_root -> [hrefs  |-> << <<"n">>, <<"/", "o">> >>,
                        emails |-> {"e1"}]
      [] u = d_n    -> [hrefs  |-> << <<"/">> >>,
                        emails |-> {"e1", "e2"}]
      [] u = e_root -> [hrefs  |-> <<>>,
                        emails |-> {"e1"}]
      [] OTHER      -> NoPage

\* the seeds a domain file may hold (each passes is_valid_url)
Seeds == {a_root, b_root, c_seed, d_root, e_root}

\* the domain files of the runs: every seed alone, and files of two and of
\* three domains over the two small sites (a file may name a domain twice)
DomainLists ==
    {<<s>> : s \in Seeds}
    \cup {<<d_root, e_root>>, <<e_root, d_root>>, <<d_root, d_root>>, <<e_root, e_root>>}
    \cup {<<e_root, d_root, e_root>>}

\* ------------------------------------------------ the crawl's URL tables
\* The string operators above are evaluated once, over the URLs the crawls of
\* this web can meet; the crawl steps below look the results up.

\* the URLs that have a page
PageUrls ==
    {a_root, a_b, a_c, a_d_e, b_root, b_p, b_q, b_r, c_seed, c_m, d_root, d_n, e_root}

\* the links of the page at u: what the anchor loop computes from each href
links_of(u) == [i \in 1..Len(Page(u).hrefs) |-> resolve(u, Page(u).hrefs[i])]

LinkTable == {<<u, links_of(u)>> : u \in PageUrls}

\* every URL a crawl can hold
Universe ==
    Seeds \cup PageUrls \cup UNION {{p[2][i] : i \in 1..Len(p[2])} : p \in LinkTable}

ValidUrls == {u \in Universe : is_valid_url(u)}

ExcludedUrls == {u \in Universe : excluded(u)}

\* the links of the page fetched at url, in document order
page_links(url) ==
    IF url \in PageUrls THEN (CHOOSE p \in LinkTable : p[1] = url)[2] ELSE <<>>

\* link in urls, for the deque
InDeque(link, q) == \E i \in 1..Len(q) : q[i] = link

\* the guard without "link not in urls"
enqueueable_any_queued(link, q, scraped) ==
    /\ link \notin scraped
    /\ link \notin ExcludedUrls

\* the guard of urls.append(link)
enqueueable(link, q, scraped) ==
    /\ ~InDeque(link, q)
    /\ link \notin scraped
    /\ link \notin ExcludedUrls

\* one pass of the body of "for anchor in soup.find_all('a')"
enqueue(link, q, scraped) ==
    IF enqueueable(link, q, scraped) THEN Append(q, link) ELSE q

\* the whole anchor loop, over the links in document order.  The deque after
\* one pass and the links left are bound as values (nq, tl) before the next
\* pass, so that no pass is evaluated again by the passes after it
RECURSIVE discover(_, _, _)
discover(links, q, scraped) ==
    IF links = <<>> THEN q
    ELSE CHOOSE result \in
             {discover(tl, nq, scraped) :
                  tl \in {Tail(links)},
                  nq \in {enqueue(Head(links), q, scraped)}} : TRUE

\* the value save_to_db stores for "no emails found": the code passes [0],
\* and the TEXT affinity of the email column stores the integer 0 as '0'
Sentinel == "0"

\* ------------------------------------------------------------------- state
VARIABLES
    domains,             \* the domain list handed to process_domains_and_save_to_db
    max_urls,            \* --maxurls
    threads,             \* --threads, the pool's max_workers
    pc,                  \* per submitted task: where process_single_domain stands
    urls,                \* per task: the deque of scrape_domain
    local_emails,        \* per task: the emails scrape_domain has found
    local_scraped_urls,  \* per task: the URLs scrape_domain has dequeued
    pending,             \* per task: the emails save_to_db has still to insert
    lock,                \* threading.Lock: 0 when free, else the task holding it
    rows,                \* table emails as the connection sees it: a bag of <<domain, email>>
    committed,           \* table emails as of the last conn.commit()
    main,                \* where the main thread stands
    trace,               \* per task: <<url, outcome>> of every loop iteration so far
    appended             \* per task: every URL put on the deque, in the order of the appends

vars == <<domains, max_urls, threads, pc, urls, local_emails, local_scraped_urls,
          pending, lock, rows, committed, main, trace, appended>>

Tasks == 1..Len(domains)


\* the tasks a pool worker is running
Active == {t \in Tasks : pc[t] \in {"running", "returned", "writing"}}

Finished == {t \in Tasks : pc[t] \in {"done", "crashed"}}

Init ==
    /\ domains \in DomainLists
    /\ max_urls \in 1..MaxK
    /\ threads \in 1..MaxThreads
    /\ pc = [t \in Tasks |-> "queued"]
    /\ urls = [t \in Tasks |-> <<>>]
    /\ local_emails = [t \in Tasks |-> {}]
    /\ local_scraped_urls = [t \in Tasks |-> {}]
    /\ pending = [t \in Tasks |-> {}]
    /\ lock = 0
    /\ rows = EmptyBag
    /\ committed = EmptyBag
    /\ main = "as_completed"
    /\ trace = [t \in Tasks |-> <<>>]
    /\ appended = [t \in Tasks |-> <<>>]

\* ----------------------------------------------------------- scrape_domain
\* urls.pop(): the newest URL instead of the oldest
pop_right(q) == [url |-> q[Len(q)], rest |-> SubSeq(q, 1, Len(q) - 1)]

\* url = urls.popleft()
popleft(q) == [url |-> Head(q), rest |-> Tail(q)]

\* requests.get without a timeout: the fetch of a URL that no server answers
\* never returns
Outcomes_no_timeout(url) ==
    IF url \notin ValidUrls THEN {"invalid"}
    ELSE IF url \in PageUrls THEN {"ok", "non200", "fail", "raise"}
    ELSE {}

\* what one fetch can come to: the URL is not fetched at all when it is not
\* valid; "raise" is an exception that is not caught inside scrape_domain
\* (the HTML parser failing on the response)
Outcomes(url) ==
    IF url \in ValidUrls THEN {"ok", "non200", "fail", "raise"} ELSE {"invalid"}

\* "continue" after "Skipping invalid URL"
skip_invalid(url, rest, emails, scraped) ==
    [urls |-> rest, emails |-> emails, scraped |-> scraped, ctl |-> "continue"]

\* a failed fetch that puts its URL back on the deque
fetch_failed_requeue(url, rest, emails, scraped) ==
    [urls |-> Append(rest, url), emails |-> emails, scraped |-> scraped,
     ctl |-> "continue"]

\* the bare except around requests.get: "Request timed out", continue
fetch_failed(url, rest, emails, scraped) ==
    [urls |-> rest, emails |-> emails, scraped |-> scraped, ctl |-> "continue"]

\* a status other than 200 that only skips the URL
fetch_non200_continue(url, rest, emails, scraped) ==
    [urls |-> rest, emails |-> emails, scraped |-> scraped, ctl |-> "continue"]

\* response.status_code != 200: "Failed to retrieve response", break
fetch_non200(url, rest, emails, scraped) ==
    [urls |-> rest, emails |-> emails, scraped |-> scraped, ctl |-> "break"]

\* a 200 response without the max_urls test after it
fetch_ok_no_budget(url, rest, emails, scraped, K) ==
    [urls    |-> discover(page_links(url), rest, scraped),
     emails  |-> emails \cup Page(url).emails,
     scraped |-> scraped,
     ctl     |-> "continue"]

\* a 200 response: the emails, the anchor loop, then the max_urls test
fetch_ok(url, rest, emails, scraped, K) ==
    [urls    |-> discover(page_links(url), rest, scraped),
     emails  |-> emails \cup Page(url).emails,
     scraped |-> scraped,
     ctl     |-> IF Cardinality(scraped) >= K THEN "break" ELSE "continue"]

\* an exception leaves scrape_domain
raised(url, rest, emails, scraped) ==
    [urls |-> rest, emails |-> emails, scraped |-> scraped, ctl |-> "raise"]

\* one iteration of "while urls:" with the given outcome of its fetch
iteration(q, emails, scraped, K, out) ==
    LET url      == popleft(q).url
        rest     == popleft(q).rest
        scraped2 == scraped \cup {url}
    IN  CASE out = "invalid" -> skip_invalid(url, rest, emails, scraped2)
          [] out = "fail"    -> fetch_failed(url, rest, emails, scraped2)
          [] out = "non200"  -> fetch_non200(url, rest, emails, scraped2)
          [] out = "ok"      -> fetch_ok(url, rest, emails, scraped2, K)
          [] out = "raise"   -> raised(url, rest, emails, scraped2)

\* where the task stands after an iteration: the exception ends the task, a
\* break or an empty deque ends the loop and scrape_domain returns
after_iteration(r) ==
    IF r.ctl = "raise" THEN "crashed"
    ELSE IF r.ctl = "break" \/ r.urls = <<>> THEN "returned"
    ELSE "running"

\* ----------------------------------------------------------- the scheduler
\* a pool that starts a thread for every submitted task
StartNoLimit(t) ==
    /\ pc[t] = "queued"
    /\ pc' = [pc EXCEPT ![t] = "running"]
    /\ urls' = [urls EXCEPT ![t] = <<domains[t]>>]
    /\ local_emails' = [local_emails EXCEPT ![t] = {}]
    /\ local_scraped_urls' = [local_scraped_urls EXCEPT ![t] = {}]
    /\ appended' = [appended EXCEPT ![t] = <<domains[t]>>]
    /\ UNCHANGED <<domains, max_urls, threads, pending, lock, rows, committed,
                   main, trace>>

\* a pool worker takes the oldest queued task and enters
\* process_single_domain: scrape_domain sets up its deque, holding the
\* domain alone, and its two empty sets
Start(t) ==
    /\ pc[t] = "queued"
    /\ \A u \in Tasks : u < t => pc[u] # "queued"
    /\ Cardinality(Active) < threads
    /\ pc' = [pc EXCEPT ![t] = "running"]
    /\ urls' = [urls EXCEPT ![t] = <<domains[t]>>]
    /\ local_emails' = [local_emails EXCEPT ![t] = {}]
    /\ local_scraped_urls' = [local_scraped_urls EXCEPT ![t] = {}]
    /\ appended' = [appended EXCEPT ![t] = <<domains[t]>>]
    /\ UNCHANGED <<domains, max_urls, threads, pending, lock, rows, committed,
                   main, trace>>

\* one iteration of the crawl loop of task t
Iterate(t) ==
    /\ pc[t] = "running"
    /\ \E out \in Outcomes(popleft(urls[t]).url) :
          \E r \in {iteration(urls[t], local_emails[t], local_scraped_urls[t],
                              max_urls, out)} :
              /\ urls' = [urls EXCEPT ![t] = r.urls]
              /\ local_emails' = [local_emails EXCEPT ![t] = r.emails]
              /\ local_scraped_urls' = [local_scraped_urls EXCEPT ![t] = r.scraped]
              /\ pc' = [pc EXCEPT ![t] = after_iteration(r)]
              /\ trace' = [trace EXCEPT
                             ![t] = Append(@, <<popleft(urls[t]).url, out>>)]
              /\ appended' = [appended EXCEPT
                                ![t] = @ \o SubSeq(r.urls, Len(urls[t]), Len(r.urls))]
    /\ UNCHANGED <<domains, max_urls, threads, pending, lock, rows, committed,
                   main>>

\* a process_single_domain that stores the sentinel for every domain
to_save_always_sentinel(emails) == emails \cup {Sentinel}

\* a process_single_domain that stores nothing when no email was found
to_save_no_sentinel(emails) == emails

\* the emails process_single_domain hands to save_to_db
to_save(emails) == IF emails # {} THEN emails ELSE {Sentinel}

\* a save_to_db that enters its write section without waiting for the lock
AcquireNoWait(t) ==
    /\ pc[t] = "returned"
    /\ lock' = t
    /\ pc' = [pc EXCEPT ![t] = "writing"]
    /\ pending' = [pending EXCEPT ![t] = to_save(local_emails[t])]
    /\ UNCHANGED <<domains, max_urls, threads, urls, local_emails,
                   local_scraped_urls, rows, committed, main, trace, appended>>

\* "with lock:" of save_to_db: blocks until the lock is free
Acquire(t) ==
    /\ pc[t] = "returned"
    /\ lock = 0
    /\ lock' = t
    /\ pc' = [pc EXCEPT ![t] = "writing"]
    /\ pending' = [pending EXCEPT ![t] = to_save(local_emails[t])]
    /\ UNCHANGED <<domains, max_urls, threads, urls, local_emails,
                   local_scraped_urls, rows, committed, main, trace, appended>>

\* a plain INSERT into a table without the UNIQUE constraint
insert_plain(table, row) == table (+) SetToBag({row})

\* INSERT OR IGNORE INTO emails under UNIQUE(domain, email)
insert_or_ignore(table, row) ==
    IF BagIn(row, table) THEN table ELSE table (+) SetToBag({row})

\* one pass of "for email in emails", in the set's iteration order
Insert(t) ==
    /\ pc[t] = "writing"
    /\ \E email \in pending[t] :
          /\ rows' = insert_or_ignore(rows, <<domains[t], email>>)
          /\ pending' = [pending EXCEPT ![t] = @ \ {email}]
    /\ UNCHANGED <<domains, max_urls, threads, pc, urls, local_emails,
                   local_scraped_urls, lock, committed, main, trace, appended>>

\* conn.commit(), then the with block releases the lock and the task ends
Commit(t) ==
    /\ pc[t] = "writing"
    /\ pending[t] = {}
    /\ committed' = rows
    /\ lock' = IF lock = t THEN 0 ELSE lock
    /\ pc' = [pc EXCEPT ![t] = "done"]
    /\ UNCHANGED <<domains, max_urls, threads, urls, local_emails,
                   local_scraped_urls, pending, rows, main, trace, appended>>

\* a future.result() whose exception leaves the function without the wait of
\* the with block
ResultRaisesNoWait ==
    /\ main = "as_completed"
    /\ \E t \in Tasks : pc[t] = "crashed"
    /\ main' = "raised"
    /\ UNCHANGED <<domains, max_urls, threads, pc, urls, local_emails,
                   local_scraped_urls, pending, lock, rows, committed, trace, appended>>

\* "for future in as_completed(futures): future.result()": the exception of a
\* crashed task is raised by result() and leaves the with block, whose exit
\* is executor.shutdown(wait=True)
ResultRaises ==
    /\ main = "as_completed"
    /\ \E t \in Tasks : pc[t] = "crashed"
    /\ main' = "shutdown"
    /\ UNCHANGED <<domains, max_urls, threads, pc, urls, local_emails,
                   local_scraped_urls, pending, lock, rows, committed, trace, appended>>

\* every future was handed over and none raised: the with block is left
ResultsDone ==
    /\ main = "as_completed"
    /\ \A t \in Tasks : pc[t] = "done"
    /\ main' = "returned"
    /\ UNCHANGED <<domains, max_urls, threads, pc, urls, local_emails,
                   local_scraped_urls, pending, lock, rows, committed, trace, appended>>

\* a shutdown that does not wait for the workers
ShutdownNoWait ==
    /\ main = "shutdown"
    /\ main' = "raised"
    /\ UNCHANGED <<domains, max_urls, threads, pc, urls, local_emails,
                   local_scraped_urls, pending, lock, rows, committed, trace, appended>>

\* shutdown(wait=True) joins the workers, which first drain the work queue;
\* then the exception reaches the caller
Shutdown ==
    /\ main = "shutdown"
    /\ Finished = Tasks
    /\ main' = "raised"
    /\ UNCHANGED <<domains, max_urls, threads, pc, urls, local_emails,
                   local_scraped_urls, pending, lock, rows, committed, trace, appended>>

Next ==
    \/ \E t \in Tasks : Start(t)
    \/ \E t \in Tasks : Iterate(t)
    \/ \E t \in Tasks : Acquire(t)
    \/ \E t \in Tasks : Insert(t)
    \/ \E t \in Tasks : Commit(t)
    \/ ResultRaises
    \/ ResultsDone
    \/ Shutdown

Spec == Init /\ [][Next]_vars

\* the task numbers of the longest domain file
TaskIds == UNION {DOMAIN l : l \in DomainLists}

\* a step of the worker thread that runs task t
TaskStep(t) ==
    /\ t \in Tasks
    /\ Start(t) \/ Iterate(t) \/ Acquire(t) \/ Insert(t) \/ Commit(t)

\* a step of the main thread
MainStep == ResultRaises \/ ResultsDone \/ Shutdown

\* The threads are scheduled by the operating system, every fetch returns
\* within its timeout and a released lock is taken by a thread waiting for
\* it: no thread that can take a step waits for ever
SpecFair ==
    /\ Spec
    /\ \A t \in TaskIds : WF_vars(TaskStep(t))
    /\ WF_vars(MainStep)

\* ------------------------------------------------ the store raising errors
\* cursor.execute raises sqlite3.Error: save_to_db prints it and goes on with
\* the next email, still holding the lock
InsertRaises(t) ==
    /\ pc[t] = "writing"
    /\ \E email \in pending[t] : pending' = [pending EXCEPT ![t] = @ \ {email}]
    /\ UNCHANGED <<domains, max_urls, threads, pc, urls, local_emails,
                   local_scraped_urls, lock, rows, committed, main, trace, appended>>

\* conn.commit() raises: the exception leaves the with block, which releases
\* the lock, and ends the task
CommitRaises(t) ==
    /\ pc[t] = "writing"
    /\ pending[t] = {}
    /\ lock' = IF lock = t THEN 0 ELSE lock
    /\ pc' = [pc EXCEPT ![t] = "crashed"]
    /\ UNCHANGED <<domains, max_urls, threads, urls, local_emails,
                   local_scraped_urls, pending, rows, committed, main, trace, appended>>

NextStoreErr ==
    \/ Next
    \/ \E t \in Tasks : InsertRaises(t)
    \/ \E t \in Tasks : CommitRaises(t)

SpecStoreErr == Init /\ [][NextStoreErr]_vars

\* ------------------------------- mail_miner.py: the sequential scheduler
\* mail_miner.py has no pool and no lock: process_domains_and_save_to_db is
\* a for loop over the domains in the main thread.  main = "as_completed"
\* stands for "inside the loop" here.
InitSeq == Init /\ threads = 1

\* the loop comes to the next domain: scrape_domain is entered
SeqStart(t) ==
    /\ main = "as_completed"
    /\ \A u \in Tasks : u < t => pc[u] = "done"
    /\ Start(t)

\* one iteration of the crawl loop, while the scheduler is inside its loop
SeqIterate(t) ==
    /\ main = "as_completed"
    /\ Iterate(t)

\* save_to_db is entered with the emails found or with [0]
SeqSave(t) ==
    /\ main = "as_completed"
    /\ pc[t] = "returned"
    /\ pc' = [pc EXCEPT ![t] = "writing"]
    /\ pending' = [pending EXCEPT ![t] = to_save(local_emails[t])]
    /\ UNCHANGED <<domains, max_urls, threads, urls, local_emails,
                   local_scraped_urls, lock, rows, committed, main, trace, appended>>

\* an exception of scrape_domain leaves the for loop and the function
SeqRaises ==
    /\ main = "as_completed"
    /\ \E t \in Tasks : pc[t] = "crashed"
    /\ main' = "raised"
    /\ UNCHANGED <<domains, max_urls, threads, pc, urls, local_emails,
                   local_scraped_urls, pending, lock, rows, committed, trace, appended>>

\* where KeyboardInterrupt can reach an iteration of the crawl loop: outside
\* the inner try before the fetch ("int_before"), inside requests.get
\* ("int_fetch"), and in the anchor loop after a 200 response ("int_links")
IntOutcomes(url) ==
    IF url \in ValidUrls THEN {"int_before", "int_fetch", "int_links"}
    ELSE {"int_before"}

\* KeyboardInterrupt inside requests.get: the bare "except:" of the inner try
\* catches it like a timeout: "Request timed out", continue
interrupt_in_fetch(url, rest, emails, scraped) ==
    fetch_failed(url, rest, emails, scraped)

\* KeyboardInterrupt outside the inner try, before the fetch: "except
\* KeyboardInterrupt" of the outer try, then the return
interrupt_before(url, rest, emails, scraped) ==
    [urls |-> rest, emails |-> emails, scraped |-> scraped, ctl |-> "break"]

\* KeyboardInterrupt in the anchor loop, after k anchors of the page: the
\* page's emails are in local_emails already
interrupt_in_links(url, rest, emails, scraped, k) ==
    [urls    |-> discover(SubSeq(page_links(url), 1, k), rest, scraped),
     emails  |-> emails \cup Page(url).emails,
     scraped |-> scraped,
     ctl     |-> "break"]

\* one iteration of "while urls:" that KeyboardInterrupt reaches
interrupted(q, emails, scraped, out, k) ==
    LET url      == popleft(q).url
        rest     == popleft(q).rest
        scraped2 == scraped \cup {url}
    IN  CASE out = "int_before" -> interrupt_before(url, rest, emails, scraped2)
          [] out = "int_fetch"  -> interrupt_in_fetch(url, rest, emails, scraped2)
          [] out = "int_links"  -> interrupt_in_links(url, rest, emails, scraped2, k)

\* the anchors an interrupt in the anchor loop can come after
IntPlaces(url, out) ==
    IF out = "int_links" THEN 0..Len(page_links(url)) ELSE {0}

\* an iteration of the crawl loop of task t in which the user's interrupt
\* (Ctrl-C) arrives; the main thread, which gets the signal, runs the crawl
IterateInterrupted(t) ==
    /\ main = "as_completed"
    /\ pc[t] = "running"
    /\ \E out \in IntOutcomes(popleft(urls[t]).url) :
          \E k \in IntPlaces(popleft(urls[t]).url, out) :
              \E r \in {interrupted(urls[t], local_emails[t], local_scraped_urls[t],
                                    out, k)} :
                  /\ urls' = [urls EXCEPT ![t] = r.urls]
                  /\ local_emails' = [local_emails EXCEPT ![t] = r.emails]
                  /\ local_scraped_urls' = [local_scraped_urls EXCEPT ![t] = r.scraped]
                  /\ pc' = [pc EXCEPT ![t] = after_iteration(r)]
                  /\ trace' = [trace EXCEPT
                                 ![t] = Append(@, <<popleft(urls[t]).url, out>>)]
                  /\ appended' = [appended EXCEPT
                                    ![t] = @ \o SubSeq(r.urls, Len(urls[t]), Len(r.urls))]
    /\ UNCHANGED <<domains, max_urls, threads, pending, lock, rows, committed,
                   main>>

\* the for loop is through: the function returns
SeqDone ==
    /\ main = "as_completed"
    /\ \A t \in Tasks : pc[t] = "done"
    /\ main' = "returned"
    /\ UNCHANGED <<domains, max_urls, threads, pc, urls, local_emails,
                   local_scraped_urls, pending, lock, rows, committed, trace, appended>>

NextSeq ==
    \/ \E t \in Tasks : SeqStart(t)
    \/ \E t \in Tasks : SeqIterate(t)
    \/ \E t \in Tasks : IterateInterrupted(t)
    \/ \E t \in Tasks : SeqSave(t)
    \/ \E t \in Tasks : Insert(t)
    \/ \E t \in Tasks : Commit(t)
    \/ SeqRaises
    \/ SeqDone

SpecSeq == InitSeq /\ [][NextSeq]_vars

\* -------------------------- mail_miner_mt.py: the user's interrupt (Ctrl-C)
\* Python delivers KeyboardInterrupt to the main thread only, which waits in
\* as_completed: the exception leaves the for loop and enters the exit of the
\* with block, executor.shutdown(wait=True).  No pool thread gets the signal
\* and nothing tells a crawl to stop.
MainInterrupt ==
    /\ main = "as_completed"
    /\ main' = "interrupted"
    /\ UNCHANGED <<domains, max_urls, threads, pc, urls, local_emails,
                   local_scraped_urls, pending, lock, rows, committed, trace, appended>>

\* shutdown(wait=True) after the interrupt: the workers are joined after they
\* have run every submitted task; then KeyboardInterrupt reaches the caller
InterruptedShutdown ==
    /\ main = "interrupted"
    /\ Finished = Tasks
    /\ main' = "raised"
    /\ UNCHANGED <<domains, max_urls, threads, pc, urls, local_emails,
                   local_scraped_urls, pending, lock, rows, committed, trace, appended>>

NextCancel ==
    \/ Next
    \/ MainInterrupt
    \/ InterruptedShutdown

SpecCancel == Init /\ [][NextCancel]_vars

\* ------------------------------------------------------------ the claims
\* the emails of the pages that the first n iterations fetched with status 200
OkEmails(tr, n) ==
    UNION {Page(tr[i][1]).emails : i \in {j \in 1..n : tr[j][2] = "ok"}}

\* the outcome of the last iteration
LastOut(tr) == IF tr = <<>> THEN "none" ELSE tr[Len(tr)][2]

\* scrape_domain has returned to process_single_domain
Returned(t) == pc[t] \in {"returned", "writing", "done"}

\* C1: with max_urls = K the set local_scraped_urls never holds more than K
\* URLs, in no state of the crawl and not when it is returned.
FrontierBound ==
    \A t \in Tasks : Cardinality(local_scraped_urls[t]) <= max_urls

\* C2: a response other than 200 ends the crawl of its domain at once: it is
\* the last URL dequeued although the deque may hold more, and the emails
\* returned are those of the pages fetched with 200 before it.  No crawl ends
\* for another reason than its own deque, its own budget or its own response.
FailFastOnNon200 ==
    \A t \in Tasks :
        /\ \A n \in 1..Len(trace[t]) :
              trace[t][n][2] = "non200" =>
                  /\ n = Len(trace[t])
                  /\ Returned(t)
                  /\ local_emails[t] = OkEmails(trace[t], n - 1)
                  /\ pending[t] \subseteq to_save(OkEmails(trace[t], n - 1))
        /\ Returned(t) =>
              \/ urls[t] = <<>>
              \/ LastOut(trace[t]) = "non200"
              \/ LastOut(trace[t]) = "ok" /\ Cardinality(local_scraped_urls[t]) >= max_urls

\* C2's case: the second page of a crawl came back with a status other than
\* 200 while the deque held one more URL and an email was already found, and
\* the crawl of another domain is running on
FailFastReached ==
    \E t, u \in Tasks :
        /\ t # u
        /\ Len(trace[t]) >= 2
        /\ LastOut(trace[t]) = "non200"
        /\ urls[t] # <<>>
        /\ local_emails[t] # {}
        /\ pc[u] = "running"
        /\ trace[u] # <<>>

\* C3: when the scheduler has raised or returned, every submitted task has
\* ended, every task that did not raise itself has its emails (or its
\* sentinel) committed to the store, and a task has crashed only by an
\* exception of its own crawl.
Isolation ==
    /\ \A t \in Tasks : pc[t] = "crashed" => LastOut(trace[t]) = "raise"
    /\ main \in {"raised", "returned"} =>
          \A t \in Tasks :
              /\ pc[t] \in {"done", "crashed"}
              /\ LastOut(trace[t]) # "raise" =>
                    \A email \in to_save(local_emails[t]) :
                        BagIn(<<domains[t], email>>, committed)

\* C3's case: with one worker the first task crashed while two tasks were
\* still queued; both were crawled and stored before the exception reached
\* the caller
IsolationReached ==
    /\ main = "raised"
    /\ threads = 1
    /\ Len(domains) = 3
    /\ pc[1] = "crashed"
    /\ \A t \in {2, 3} :
          /\ pc[t] = "done"
          /\ local_emails[t] # {}
          /\ \A email \in local_emails[t] : BagIn(<<domains[t], email>>, committed)

\* the tasks inside the with block of save_to_db
Writers == {t \in Tasks : pc[t] = "writing"}

\* C4: at most one task is inside the write section of save_to_db, it is the
\* holder of the lock, the lock is free whenever no task is inside (also after
\* an insert or the commit raised), and every INSERT and every commit is a
\* step of the task holding the lock.
WriteSerialized ==
    /\ [](/\ Cardinality(Writers) <= 1
          /\ lock = 0 => Writers = {}
          /\ lock # 0 => Writers = {lock})
    /\ [][\A t \in Tasks :
             (pc[t] = "writing" /\ (pending'[t] # pending[t] \/ pc'[t] # "writing"))
                 => lock = t]_vars

\* C4's case: a commit has raised and its task has ended, another task is
\* inside the write section, and a third waits for the lock
WriteSerializedReached ==
    \E t, u, v \in Tasks :
        /\ pc[t] = "crashed" /\ LastOut(trace[t]) # "raise"
        /\ pc[u] = "writing" /\ lock = u
        /\ pc[v] = "returned"

\* C5: the table never holds a (domain, email) pair twice, and the same email
\* found under two domains is stored once for each.
PairUnique ==
    /\ \A row \in BagToSet(rows) : CopiesIn(row, rows) = 1
    /\ \A t \in Tasks :
          pc[t] = "done" =>
              \A email \in to_save(local_emails[t]) : BagIn(<<domains[t], email>>, rows)

\* C5's case: two tasks of the same domain and one of another domain all
\* found the same email and all have written
PairUniqueReached ==
    /\ Len(domains) = 3
    /\ domains[1] = domains[3]
    /\ domains[1] # domains[2]
    /\ \A t \in Tasks : pc[t] = "done" /\ "e1" \in local_emails[t]
    /\ BagIn(<<domains[1], "e1">>, rows)
    /\ BagIn(<<domains[2], "e1">>, rows)

\* a row of the table for this domain
HasRow(table, d) == \E row \in BagToSet(table) : row[1] = d

\* C6: from some point on, every task whose crawl has returned without an
\* email has the sentinel row of its domain committed (a crawl that has
\* returned stays returned, so each such task gets its row), and the table
\* never holds a row for a domain that was not submitted.
EmptyResultMarked ==
    /\ <>[](\A t \in Tasks :
               (Returned(t) /\ local_emails[t] = {})
                   => BagIn(<<domains[t], Sentinel>>, committed))
    /\ [](\A d \in Seeds : HasRow(rows, d) => \E t \in Tasks : domains[t] = d)

\* C6's case: a crawl that ended on its first response, without an email,
\* has its sentinel row committed while another seed has no row at all
EmptyResultReached ==
    \E t \in Tasks :
        /\ pc[t] = "done"
        /\ local_emails[t] = {}
        /\ LastOut(trace[t]) \in {"non200", "fail"}
        /\ BagIn(<<domains[t], Sentinel>>, committed)
        /\ \E d \in Seeds : ~HasRow(committed, d)

\* the URLs dequeued so far, in the order of the dequeues
Dequeued(t) == [i \in 1..Len(trace[t]) |-> trace[t][i][1]]

\* the pages task t has fetched with status 200
FetchedOk(t) == {trace[t][i][1] : i \in {j \in 1..Len(trace[t]) : trace[t][j][2] = "ok"}}

\* the number of links from a URL of layer to u, following the links of the
\* pages in src only; Cardinality(Universe) when there is no such path
RECURSIVE Dist(_, _, _, _, _)
Dist(layer, reached, n, u, src) ==
    IF u \in layer THEN n
    ELSE IF layer = {} THEN Cardinality(Universe)
    ELSE Dist(UNION {{page_links(v)[i] : i \in 1..Len(page_links(v))} :
                         v \in layer \cap src} \ (reached \cup layer),
              reached \cup layer, n + 1, u, src)

\* the depth of u below the seed of task t in the link graph of the web
LinkDepth(t, u) == Dist({domains[t]}, {}, 0, u, Universe)

\* the depth of u below the seed of task t, along the links of the pages the
\* crawl has fetched with status 200
FoundDepth(t, u) == Dist({domains[t]}, {}, 0, u, FetchedOk(t))

\* the dequeues follow the appends
Fifo(t) ==
    /\ Len(trace[t]) <= Len(appended[t])
    /\ Dequeued(t) = SubSeq(appended[t], 1, Len(trace[t]))
    /\ urls[t] = SubSeq(appended[t], Len(trace[t]) + 1, Len(appended[t]))

\* C7 as claimed: the URLs are dequeued in the order of their appends, and no
\* URL at depth N + 1 of the link graph is dequeued before one at depth N,
\* also when fetches fail.
BfsByLinkDepth ==
    \A t \in Tasks :
        /\ Fifo(t)
        /\ \A i, j \in 1..Len(Dequeued(t)) :
              i < j => LinkDepth(t, Dequeued(t)[i])
                           # LinkDepth(t, Dequeued(t)[j]) + 1

\* C7 as amended: the URLs are dequeued in the order of their appends, and no
\* URL found at depth N + 1 is dequeued before one found at depth N, where the
\* depth counts links of pages fetched with status 200.
BfsByFoundDepth ==
    \A t \in Tasks :
        /\ Fifo(t)
        /\ \A i, j \in 1..Len(Dequeued(t)) :
              i < j => FoundDepth(t, Dequeued(t)[i])
                           # FoundDepth(t, Dequeued(t)[j]) + 1

\* C7's case: on site b the fetch of p failed, so x, which p links to, was
\* found only on r and is dequeued after y
BfsReached ==
    \E t \in Tasks :
        /\ domains[t] = b_root
        /\ Len(trace[t]) = 6
        /\ trace[t][2] = <<b_p, "fail">>
        /\ trace[t][5][1] = b_y
        /\ trace[t][6][1] = b_x

\* no element twice
NoDuplicate(q) == \A i, j \in 1..Len(q) : i # j => q[i] # q[j]

\* C8: no URL is dequeued twice; the deque holds no URL twice and no URL that
\* was dequeued before.
VisitAtMostOnce ==
    \A t \in Tasks :
        /\ NoDuplicate(Dequeued(t))
        /\ NoDuplicate(urls[t])
        /\ \A i \in 1..Len(urls[t]) : urls[t][i] \notin local_scraped_urls[t]
        /\ local_scraped_urls[t] = {Dequeued(t)[i] : i \in 1..Len(trace[t])}

\* C8's case: the seed of site a (an anchor twice, a link to itself) and its
\* pages b and c (links to each other, to themselves and to the seed) have
\* all been fetched
VisitAtMostOnceReached ==
    \E t \in Tasks : {a_root, a_b, a_c} \subseteq FetchedOk(t)

\* s.endswith(x)
EndsWith(s, x) == Len(s) >= Len(x) /\ SubSeq(s, Len(s) - Len(x) + 1, Len(s)) = x

\* C9: no link that ends in .pdf, .jpg, .jpeg or .png is put on the deque by
\* the anchor loop, so none is dequeued and fetched.
ExclusionFilter ==
    \A t \in Tasks :
        /\ \A i \in 2..Len(appended[t]) :
              \A x \in exclusion_list : ~EndsWith(appended[t][i], x)
        /\ \A i \in 1..Len(urls[t]) :
              urls[t][i] # domains[t] =>
                  \A x \in exclusion_list : ~EndsWith(urls[t][i], x)
        /\ \A i \in 2..Len(trace[t]) :
              \A x \in exclusion_list : ~EndsWith(trace[t][i][1], x)

\* C9's case: the four pages of site a that link to a .pdf, a .jpeg, a .jpg
\* and a .png file have been fetched
ExclusionReached ==
    \E t \in Tasks : {a_root, a_b, a_c, a_d_e} \subseteq FetchedOk(t)

\* C10: a failed fetch does not end the crawl while the deque holds a URL, it
\* leaves the emails and the rest of the deque as they were, and its URL is
\* not put on the deque and not dequeued again.
FetchFailureLocal ==
    /\ [](\A t \in Tasks :
             \A n \in 1..Len(trace[t]) :
                 trace[t][n][2] = "fail" =>
                     /\ ~InDeque(trace[t][n][1], urls[t])
                     /\ \A m \in 1..Len(trace[t]) :
                           m # n => trace[t][m][1] # trace[t][n][1]
                     /\ (n = Len(trace[t]) /\ urls[t] # <<>>) => pc[t] = "running")
    /\ [][\A t \in Tasks :
             (Len(trace'[t]) = Len(trace[t]) + 1 /\ LastOut(trace'[t]) = "fail")
                 => /\ local_emails'[t] = local_emails[t]
                    /\ urls'[t] = Tail(urls[t])]_vars

\* C10's case: the fetch of page b of site a failed and page c, fetched
\* later, links to b
FetchFailureReached ==
    \E t \in Tasks :
        \E n, m \in 1..Len(trace[t]) :
            /\ n < m
            /\ trace[t][n] = <<a_b, "fail">>
            /\ trace[t][m] = <<a_c, "ok">>

\* the outcomes of an iteration that KeyboardInterrupt reached
IntOuts == {"int_before", "int_fetch", "int_links"}

\* the emails of the pages whose emails the first n iterations have taken up
FoundEmails(tr, n) ==
    UNION {Page(tr[i][1]).emails : i \in {j \in 1..n : tr[j][2] \in {"ok", "int_links"}}}

\* C11: an iteration of the crawl that KeyboardInterrupt reaches, before,
\* during or after the fetch or in the anchor loop, is the last one of its
\* crawl: scrape_domain returns, with exactly the emails found so far.
PartialOnInterrupt ==
    \A t \in Tasks :
        \A n \in 1..Len(trace[t]) :
            trace[t][n][2] \in IntOuts =>
                /\ n = Len(trace[t])
                /\ Returned(t)
                /\ local_emails[t] = FoundEmails(trace[t], n)

\* C12: once the stop signal has been raised, an iteration of a crawl in
\* flight is its last one (the crawl ends at the iteration boundary), and no
\* crawl that is still queued is started: the scheduler waits for no crawl to
\* run on to its normal end.
StopsOnSignal ==
    [][\A t \in Tasks :
          main = "interrupted" =>
              /\ Len(trace'[t]) > Len(trace[t]) => pc'[t] # "running"
              /\ pc[t] = "queued" => pc'[t] = "queued"]_vars

\* C13: process_domains_and_save_to_db neither returns nor raises while a
\* submitted task is queued, running or writing; it raises only when a task
\* has crashed and returns only when none has; and a crash is in the end
\* raised to the caller.
CrashReportedLast ==
    /\ [](main \in {"raised", "returned"} =>
             \A t \in Tasks : pc[t] \in {"done", "crashed"})
    /\ [](main = "raised" => \E t \in Tasks : pc[t] = "crashed")
    /\ [](main = "returned" => \A t \in Tasks : pc[t] = "done")
    /\ <>[]((\E t \in Tasks : pc[t] = "crashed") => main = "raised")

\* C13's case: with two workers the second of three tasks crashed in its
\* first iteration; the exception has reached the caller after the first and
\* the third task were crawled and stored
CrashReportedReached ==
    /\ main = "raised"
    /\ threads = 2
    /\ Len(domains) = 3
    /\ pc[2] = "crashed" /\ Len(trace[2]) = 1
    /\ pc[1] = "done" /\ pc[3] = "done"
    /\ Len(trace[3]) >= 1

\* C14: when the sequential scheduler has returned or raised, every domain
\* whose own crawl did not raise, the domains after a crashed one included,
\* has been crawled and has its emails or its sentinel row committed.
SeqIsolation ==
    main \in {"raised", "returned"} =>
        \A t \in Tasks :
            LastOut(trace[t]) # "raise" =>
                /\ trace[t] # <<>>
                /\ \A email \in to_save(local_emails[t]) :
                       BagIn(<<domains[t], email>>, committed)

\* the URLs of a sequence
Range(q) == {q[i] : i \in 1..Len(q)}

\* C15: never more than threads crawls are running; when the scheduler is
\* through, every submitted domain has been crawled, from its own seed; a
\* task once dispatched is never dispatched again and its crawl is never
\* started anew; and a step that changes the deque or the visited set of one
\* crawl leaves the deque, the visited set and the emails of every other
\* crawl as they are, each holding only URLs its own crawl has appended.
PoolBound ==
    /\ [](Cardinality(Active) <= threads)
    /\ [](main \in {"raised", "returned"} =>
             \A t \in Tasks : trace[t] # <<>> /\ trace[t][1][1] = domains[t])
    /\ [](\A t \in Tasks :
             pc[t] # "queued" =>
                 /\ appended[t] # <<>> /\ appended[t][1] = domains[t]
                 /\ Range(urls[t]) \cup local_scraped_urls[t] \subseteq Range(appended[t]))
    /\ [][\A t \in Tasks :
             pc[t] # "queued" =>
                 /\ pc'[t] # "queued"
                 /\ Len(trace'[t]) >= Len(trace[t])
                 /\ SubSeq(trace'[t], 1, Len(trace[t])) = trace[t]]_vars
    /\ [][\A t, u \in Tasks :
             (t # u /\ (urls'[t] # urls[t]
                        \/ local_scraped_urls'[t] # local_scraped_urls[t]))
                 => /\ urls'[u] = urls[u]
                    /\ local_scraped_urls'[u] = local_scraped_urls[u]
                    /\ local_emails'[u] = local_emails[u]]_vars

\* C15's case: three domains on a pool of two: two crawls are at work and the
\* third domain waits in the queue
PoolBoundReached ==
    /\ threads = 2
    /\ Len(domains) = 3
    /\ pc[1] = "running"
    /\ pc[2] = "running" /\ trace[2] # <<>>
    /\ pc[3] = "queued"

\* C16: every URL the anchor loop has put on the deque is the link of an
\* anchor that has an href: an anchor without href (read as the empty string)
\* puts no URL on the deque.
MissingHrefNotEnqueued ==
    \A t \in Tasks :
        \A i \in 2..Len(appended[t]) :
            \E u \in FetchedOk(t) :
                \E k \in 1..Len(Page(u).hrefs) :
                    /\ Page(u).hrefs[k] # <<>>
                    /\ page_links(u)[k] = appended[t][i]

\* C17: every crawl leaves its loop for good: from some point on no task is
\* queued or running, and a task has ended without returning only when its
\* own crawl raised an exception, which is none of the outcomes of a fetch
\* that returns.
CrawlTerminates ==
    <>[](\A t \in Tasks :
            /\ pc[t] \notin {"queued", "running"}
            /\ LastOut(trace[t]) # "raise" => Returned(t))

\* C17's case: after the seed every URL was invalid or failed to fetch; the
\* crawl went past its budget and has returned with an empty deque
CrawlTerminatesReached ==
    \E t \in Tasks :
        /\ Returned(t)
        /\ urls[t] = <<>>
        /\ Len(trace[t]) >= 4
        /\ trace[t][1][2] = "ok"
        /\ \A n \in 2..Len(trace[t]) : trace[t][n][2] \in {"fail", "invalid"}
        /\ \E n \in 2..Len(trace[t]) : trace[t][n][2] = "invalid"
        /\ Cardinality(local_scraped_urls[t]) > max_urls

\* the directory portion of a URL as C18 states it: the URL up to and
\* including the last '/' of its path; a URL without a path has the root of
\* its host as its directory (RFC 3986, 5.2.3)
DirectoryOf(url) ==
    LET parts == urlsplit(url)
    IN  IF Contains(parts.path, <<"/">>)
        THEN base_url(url) \o SubSeq(parts.path, 1, RFind(parts.path, "/"))
        ELSE base_url(url) \o <<"/">>

\* the URL C18 states for an href on the page at url
ClaimedLink(url, href) ==
    IF StartsWith(href, <<"/">>) THEN base_url(url) \o href
    ELSE IF ~StartsWith(href, <<"h", "t", "t", "p">>) THEN DirectoryOf(url) \o href
    ELSE href

\* C18: for every page a crawl has fetched and every anchor of it, the link
\* the anchor loop considers is scheme and host of the page followed by the
\* href when the href begins with '/', the directory of the page followed by
\* the href when it does not begin with 'http', and the href itself
\* otherwise, also for a page whose URL has no path.
LinkResolution ==
    \A t \in Tasks :
        \A u \in FetchedOk(t) :
            \A k \in 1..Len(Page(u).hrefs) :
                page_links(u)[k] = ClaimedLink(u, Page(u).hrefs[k])

\* the same for the pages whose URL has a path
LinkResolutionWithPath ==
    \A t \in Tasks :
        \A u \in FetchedOk(t) :
            urlsplit(u).path # <<>> =>
                \A k \in 1..Len(Page(u).hrefs) :
                    page_links(u)[k] = ClaimedLink(u, Page(u).hrefs[k])

\* the domains of the run are pairwise distinct
DistinctDomains == \A t, u \in Tasks : t # u => domains[t] # domains[u]

\* the rows of a domain
RowsOf(table, d) == {row \in BagToSet(table) : row[1] = d}

OkFetches(tr, n) == {i \in 1..n : tr[i][2] = "ok"}

\* C20: a crawl fetches at most max_urls pages with status 200, whatever
\* URLs are invalid or fail in between, and an iteration that has fetched a
\* page with status 200 and leaves max_urls or more URLs visited is the last
\* one of its crawl.
FetchBudget ==
    \A t \in Tasks :
        /\ Cardinality(OkFetches(trace[t], Len(trace[t]))) <= max_urls
        /\ \A n \in 1..Len(trace[t]) :
              (/\ trace[t][n][2] = "ok"
               /\ Cardinality({trace[t][i][1] : i \in 1..n}) >= max_urls)
                  => n = Len(trace[t]) /\ Returned(t)

\* C20's case: a crawl with max_urls >= 2 has fetched max_urls pages with
\* status 200 and, with a failed fetch between them, has visited more than
\* max_urls URLs; it has returned while its deque still holds a URL
FetchBudgetReached ==
    \E t \in Tasks :
        /\ max_urls >= 2
        /\ Cardinality(OkFetches(trace[t], Len(trace[t]))) = max_urls
        /\ Cardinality(local_scraped_urls[t]) > max_urls
        /\ Returned(t)
        /\ urls[t] # <<>>

====
